---------------------------- MODULE Spec2Model ----------------------------
(***************************************************************************)
(* HighSymmKpath (pymatgen/symmetry/bandstructure.py): the classification  *)
(* of a structure into one of the 24 Setyawan-Curtarolo path variants done *)
(* by __init__, the 24 path generators, the properties kpath and name, and *)
(* the sampler get_kpoints.                                                *)
(*                                                                         *)
(* Python floats are modelled as exact rationals <<n, d>> (d > 0, lowest   *)
(* terms).  <<0, 0>> stands for "ZeroDivisionError was raised while this   *)
(* value was computed"; every arithmetic operator propagates it.           *)
(***************************************************************************)
EXTENDS Integers, Sequences, FiniteSets, TLC

(* ------------------------------ bounds -------------------------------- *)
\* line_density of a get_kpoints call is drawn from 1..MaxDensity
MaxDensity == 2

(* ------------------------- float arithmetic --------------------------- *)
Abs(n) == IF n < 0 THEN -n ELSE n

RECURSIVE GCD(_, _)
GCD(m, n) == IF n = 0 THEN m ELSE GCD(n, m % n)

ZeroDivisionError == <<0, 0>>
Raised(x) == x[2] = 0

Frac(n, d) ==
    IF d = 0 THEN ZeroDivisionError
    ELSE LET g == GCD(Abs(n), Abs(d))
             s == IF d < 0 THEN -1 ELSE 1
         IN  <<(s * n) \div g, (s * d) \div g>>

Num(n) == <<n, 1>>

Plus(x, y) ==
    IF Raised(x) \/ Raised(y) THEN ZeroDivisionError
    ELSE IF x[1] = 0 THEN y
    ELSE IF y[1] = 0 THEN x
    ELSE IF x[2] = y[2] THEN Frac(x[1] + y[1], x[2])
    ELSE LET g == GCD(x[2], y[2])
         IN  Frac(x[1] * (y[2] \div g) + y[1] * (x[2] \div g), x[2] * (y[2] \div g))

Neg(x) == IF Raised(x) THEN ZeroDivisionError ELSE <<-x[1], x[2]>>

Minus(x, y) == Plus(x, Neg(y))

Times(x, y) ==
    IF Raised(x) \/ Raised(y) THEN ZeroDivisionError
    ELSE IF x[1] = 0 \/ y[1] = 0 THEN <<0, 1>>
    ELSE IF x[2] = 1 /\ y[2] = 1 THEN <<x[1] * y[1], 1>>
    ELSE LET g1 == GCD(Abs(x[1]), y[2])
             g2 == GCD(Abs(y[1]), x[2])
         IN  <<(x[1] \div g1) * (y[1] \div g2), (x[2] \div g2) * (y[2] \div g1)>>

\* x / y of two floats: raises ZeroDivisionError when y is 0.0
Over(x, y) ==
    IF Raised(x) \/ Raised(y) \/ y[1] = 0 THEN ZeroDivisionError
    ELSE Times(x, Frac(y[2], y[1]))

Sq(x) == Times(x, x)

\* x < y, x == y on values that were computed without an exception
Less(x, y) == x[1] * y[2] < y[1] * x[2]
Equal(x, y) == x = y

(* ------------------------------- math ---------------------------------- *)
\* A float handed to cos / sin / tan is either a plain number x (tag "num")
\* or the product deg * pi / 180 (tag "pi180"); the two are different
\* numbers and the functions below are tabulated for each separately.
Plain(x) == [tag |-> "num", val |-> x]
TimesPiOver180(deg) == [tag |-> "pi180", val |-> deg]

\* math.cos at 60, 90 and 120 degrees
cos(x) ==
    CASE x.tag = "pi180" /\ x.val = 60  -> Frac(1, 2)
      [] x.tag = "pi180" /\ x.val = 90  -> Frac(0, 1)
      [] x.tag = "pi180" /\ x.val = 120 -> Frac(-1, 2)

\* math.sin(x) ** 2: exact at multiples of pi / 180, and rounded to four
\* decimals at the plain numbers 60.0 and 120.0 (radians):
\* sin(60.0) ** 2 = 0.09290..., sin(120.0) ** 2 = 0.33710...
sin2(x) ==
    CASE x.tag = "pi180" /\ x.val = 60  -> Frac(3, 4)
      [] x.tag = "pi180" /\ x.val = 120 -> Frac(3, 4)
      [] x.tag = "num"   /\ x.val = 60  -> Frac(929, 10000)
      [] x.tag = "num"   /\ x.val = 120 -> Frac(3371, 10000)

\* math.tan(x / 2.0) ** 2 at 90 and 120 degrees
tan2half(x) ==
    CASE x.tag = "pi180" /\ x.val = 90  -> Frac(1, 1)
      [] x.tag = "pi180" /\ x.val = 120 -> Frac(3, 1)

(* -------------------------- path generators --------------------------- *)
\* np.array([x, y, z])
Vec(x, y, z) == <<x, y, z>>
O == Num(0)
H2 == Frac(1, 2)
Q4 == Frac(1, 4)
One == Num(1)

\* what a generator leaves behind: the value of self._name it sets and the
\* dictionary {'kpoints': ..., 'path': ...} it returns
Gen(nm, kpts, pth) == [name |-> nm, kpoints |-> kpts, path |-> pth]

\* Mutation of cubic: X lies on the first reciprocal axis
cubic_X_on_first_axis ==
    Gen("CUB",
        ("\\Gamma" :> Vec(O, O, O)) @@ ("X" :> Vec(H2, O, O))
          @@ ("R" :> Vec(H2, H2, H2)) @@ ("M" :> Vec(H2, H2, O)),
        << <<"\\Gamma", "X", "M", "\\Gamma", "R", "X">>, <<"M", "R">> >>)

\* Mutation of cubic: the key of the zone centre is spelt without its backslash
cubic_mislabelled ==
    Gen("CUB",
        ("Gamma" :> Vec(O, O, O)) @@ ("X" :> Vec(O, H2, O))
          @@ ("R" :> Vec(H2, H2, H2)) @@ ("M" :> Vec(H2, H2, O)),
        << <<"\\Gamma", "X", "M", "\\Gamma", "R", "X">>, <<"M", "R">> >>)

cubic ==
    Gen("CUB",
        ("\\Gamma" :> Vec(O, O, O)) @@ ("X" :> Vec(O, H2, O))
          @@ ("R" :> Vec(H2, H2, H2)) @@ ("M" :> Vec(H2, H2, O)),
        << <<"\\Gamma", "X", "M", "\\Gamma", "R", "X">>, <<"M", "R">> >>)

fcc ==
    Gen("FCC",
        ("\\Gamma" :> Vec(O, O, O)) @@ ("K" :> Vec(Frac(3, 8), Frac(3, 8), Frac(3, 4)))
          @@ ("L" :> Vec(H2, H2, H2)) @@ ("U" :> Vec(Frac(5, 8), Q4, Frac(5, 8)))
          @@ ("W" :> Vec(H2, Q4, Frac(3, 4))) @@ ("X" :> Vec(H2, O, H2)),
        << <<"\\Gamma", "X", "W", "K", "\\Gamma", "L", "U", "W", "L", "K">>,
           <<"U", "X">> >>)

bcc ==
    Gen("BCC",
        ("\\Gamma" :> Vec(O, O, O)) @@ ("H" :> Vec(H2, Neg(H2), H2))
          @@ ("P" :> Vec(Q4, Q4, Q4)) @@ ("N" :> Vec(O, O, H2)),
        << <<"\\Gamma", "H", "N", "\\Gamma", "P", "H">>, <<"P", "N">> >>)

tet ==
    Gen("TET",
        ("\\Gamma" :> Vec(O, O, O)) @@ ("A" :> Vec(H2, H2, H2))
          @@ ("M" :> Vec(H2, H2, O)) @@ ("R" :> Vec(O, H2, H2))
          @@ ("X" :> Vec(O, H2, O)) @@ ("Z" :> Vec(O, O, H2)),
        << <<"\\Gamma", "X", "M", "\\Gamma", "Z", "R", "A", "Z">>,
           <<"X", "R">>, <<"M", "A">> >>)

bctet1(c, a) ==
    LET eta == Over(Plus(One, Over(Sq(c), Sq(a))), Num(4))
    IN  Gen("BCT1",
            ("\\Gamma" :> Vec(O, O, O)) @@ ("M" :> Vec(Neg(H2), H2, H2))
              @@ ("N" :> Vec(O, H2, O)) @@ ("P" :> Vec(Q4, Q4, Q4))
              @@ ("X" :> Vec(O, O, H2)) @@ ("Z" :> Vec(eta, eta, Neg(eta)))
              @@ ("Z_1" :> Vec(Neg(eta), Minus(One, eta), eta)),
            << <<"\\Gamma", "X", "M", "\\Gamma", "Z", "P", "N", "Z_1", "M">>,
               <<"X", "P">> >>)

bctet2(c, a) ==
    LET eta == Over(Plus(One, Over(Sq(a), Sq(c))), Num(4))
        zeta == Over(Sq(a), Times(Num(2), Sq(c)))
    IN  Gen("BCT2",
            ("\\Gamma" :> Vec(O, O, O)) @@ ("N" :> Vec(O, H2, O))
              @@ ("P" :> Vec(Q4, Q4, Q4)) @@ ("\\Sigma" :> Vec(Neg(eta), eta, eta))
              @@ ("\\Sigma_1" :> Vec(eta, Minus(One, eta), Neg(eta)))
              @@ ("X" :> Vec(O, O, H2)) @@ ("Y" :> Vec(Neg(zeta), zeta, H2))
              @@ ("Y_1" :> Vec(H2, H2, Neg(zeta))) @@ ("Z" :> Vec(H2, H2, Neg(H2))),
            << <<"\\Gamma", "X", "Y", "\\Sigma", "\\Gamma", "Z",
                 "\\Sigma_1", "N", "P", "Y_1", "Z">>,
               <<"X", "P">> >>)

orc ==
    Gen("ORC",
        ("\\Gamma" :> Vec(O, O, O)) @@ ("R" :> Vec(H2, H2, H2))
          @@ ("S" :> Vec(H2, H2, O)) @@ ("T" :> Vec(O, H2, H2))
          @@ ("U" :> Vec(H2, O, H2)) @@ ("X" :> Vec(H2, O, O))
          @@ ("Y" :> Vec(O, H2, O)) @@ ("Z" :> Vec(O, O, H2)),
        << <<"\\Gamma", "X", "S", "Y", "\\Gamma", "Z", "U", "R", "T", "Z">>,
           <<"Y", "T">>, <<"U", "X">>, <<"S", "R">> >>)

orcf1(a, b, c) ==
    LET zeta == Over(Minus(Plus(One, Over(Sq(a), Sq(b))), Over(Sq(a), Sq(c))), Num(4))
        eta == Over(Plus(Plus(One, Over(Sq(a), Sq(b))), Over(Sq(a), Sq(c))), Num(4))
    IN  Gen("ORCF1",
            ("\\Gamma" :> Vec(O, O, O)) @@ ("A" :> Vec(H2, Plus(H2, zeta), zeta))
              @@ ("A_1" :> Vec(H2, Minus(H2, zeta), Minus(One, zeta)))
              @@ ("L" :> Vec(H2, H2, H2)) @@ ("T" :> Vec(One, H2, H2))
              @@ ("X" :> Vec(O, eta, eta))
              @@ ("X_1" :> Vec(One, Minus(One, eta), Minus(One, eta)))
              @@ ("Y" :> Vec(H2, O, H2)) @@ ("Z" :> Vec(H2, H2, O)),
            << <<"\\Gamma", "Y", "T", "Z", "\\Gamma", "X", "A_1", "Y">>,
               <<"T", "X_1">>, <<"X", "A", "Z">>, <<"L", "\\Gamma">> >>)

orcf2(a, b, c) ==
    LET phi == Over(Minus(Plus(One, Over(Sq(c), Sq(b))), Over(Sq(c), Sq(a))), Num(4))
        eta == Over(Minus(Plus(One, Over(Sq(a), Sq(b))), Over(Sq(a), Sq(c))), Num(4))
        delta == Over(Minus(Plus(One, Over(Sq(b), Sq(a))), Over(Sq(b), Sq(c))), Num(4))
    IN  Gen("ORCF2",
            ("\\Gamma" :> Vec(O, O, O))
              @@ ("C" :> Vec(H2, Minus(H2, eta), Minus(One, eta)))
              @@ ("C_1" :> Vec(H2, Plus(H2, eta), eta))
              @@ ("D" :> Vec(Minus(H2, delta), H2, Minus(One, delta)))
              @@ ("D_1" :> Vec(Plus(H2, delta), H2, delta))
              @@ ("L" :> Vec(H2, H2, H2))
              @@ ("H" :> Vec(Minus(One, phi), Minus(H2, phi), H2))
              @@ ("H_1" :> Vec(phi, Plus(H2, phi), H2))
              @@ ("X" :> Vec(O, H2, H2)) @@ ("Y" :> Vec(H2, O, H2))
              @@ ("Z" :> Vec(H2, H2, O)),
            << <<"\\Gamma", "Y", "C", "D", "X", "\\Gamma", "Z", "D_1", "H", "C">>,
               <<"C_1", "Z">>, <<"X", "H_1">>, <<"H", "Y">>, <<"L", "\\Gamma">> >>)

orcf3(a, b, c) ==
    LET zeta == Over(Minus(Plus(One, Over(Sq(a), Sq(b))), Over(Sq(a), Sq(c))), Num(4))
        eta == Over(Plus(Plus(One, Over(Sq(a), Sq(b))), Over(Sq(a), Sq(c))), Num(4))
    IN  Gen("ORCF3",
            ("\\Gamma" :> Vec(O, O, O)) @@ ("A" :> Vec(H2, Plus(H2, zeta), zeta))
              @@ ("A_1" :> Vec(H2, Minus(H2, zeta), Minus(One, zeta)))
              @@ ("L" :> Vec(H2, H2, H2)) @@ ("T" :> Vec(One, H2, H2))
              @@ ("X" :> Vec(O, eta, eta))
              @@ ("X_1" :> Vec(One, Minus(One, eta), Minus(One, eta)))
              @@ ("Y" :> Vec(H2, O, H2)) @@ ("Z" :> Vec(H2, H2, O)),
            << <<"\\Gamma", "Y", "T", "Z", "\\Gamma", "X", "A_1", "Y">>,
               <<"X", "A", "Z">>, <<"L", "\\Gamma">> >>)

orci(a, b, c) ==
    LET zeta == Over(Plus(One, Over(Sq(a), Sq(c))), Num(4))
        eta == Over(Plus(One, Over(Sq(b), Sq(c))), Num(4))
        delta == Over(Minus(Sq(b), Sq(a)), Times(Num(4), Sq(c)))
        mu == Over(Plus(Sq(a), Sq(b)), Times(Num(4), Sq(c)))
    IN  Gen("ORCI",
            ("\\Gamma" :> Vec(O, O, O))
              @@ ("L" :> Vec(Neg(mu), mu, Minus(H2, delta)))
              @@ ("L_1" :> Vec(mu, Neg(mu), Plus(H2, delta)))
              @@ ("L_2" :> Vec(Minus(H2, delta), Plus(H2, delta), Neg(mu)))
              @@ ("R" :> Vec(O, H2, O)) @@ ("S" :> Vec(H2, O, O))
              @@ ("T" :> Vec(O, O, H2)) @@ ("W" :> Vec(Q4, Q4, Q4))
              @@ ("X" :> Vec(Neg(zeta), zeta, zeta))
              @@ ("X_1" :> Vec(zeta, Minus(One, zeta), Neg(zeta)))
              @@ ("Y" :> Vec(eta, Neg(eta), eta))
              @@ ("Y_1" :> Vec(Minus(One, eta), eta, Neg(eta)))
              @@ ("Z" :> Vec(H2, H2, Neg(H2))),
            << <<"\\Gamma", "X", "L", "T", "W", "R", "X_1", "Z",
                 "\\Gamma", "Y", "S", "W">>,
               <<"L_1", "Y">>, <<"Y_1", "Z">> >>)

orcc(a, b, c) ==
    LET zeta == Over(Plus(One, Over(Sq(a), Sq(b))), Num(4))
    IN  Gen("ORCC",
            ("\\Gamma" :> Vec(O, O, O)) @@ ("A" :> Vec(zeta, zeta, H2))
              @@ ("A_1" :> Vec(Neg(zeta), Minus(One, zeta), H2))
              @@ ("R" :> Vec(O, H2, H2)) @@ ("S" :> Vec(O, H2, O))
              @@ ("T" :> Vec(Neg(H2), H2, H2)) @@ ("X" :> Vec(zeta, zeta, O))
              @@ ("X_1" :> Vec(Neg(zeta), Minus(One, zeta), O))
              @@ ("Y" :> Vec(Neg(H2), H2, O)) @@ ("Z" :> Vec(O, O, H2)),
            << <<"\\Gamma", "X", "S", "R", "A", "Z",
                 "\\Gamma", "Y", "X_1", "A_1", "T", "Y">>,
               <<"Z", "T">> >>)

hex ==
    Gen("HEX",
        ("\\Gamma" :> Vec(O, O, O)) @@ ("A" :> Vec(O, O, H2))
          @@ ("H" :> Vec(Frac(1, 3), Frac(1, 3), H2))
          @@ ("K" :> Vec(Frac(1, 3), Frac(1, 3), O))
          @@ ("L" :> Vec(H2, O, H2)) @@ ("M" :> Vec(H2, O, O)),
        << <<"\\Gamma", "M", "K", "\\Gamma", "A", "L", "H", "A">>,
           <<"L", "M">>, <<"K", "H">> >>)

rhl1(alpha) ==
    LET eta == Over(Plus(One, Times(Num(4), cos(alpha))),
                    Plus(Num(2), Times(Num(4), cos(alpha))))
        nu == Minus(Frac(3, 4), Over(eta, Num(2)))
    IN  Gen("RHL1",
            ("\\Gamma" :> Vec(O, O, O)) @@ ("B" :> Vec(eta, H2, Minus(One, eta)))
              @@ ("B_1" :> Vec(H2, Minus(One, eta), Minus(eta, One)))
              @@ ("F" :> Vec(H2, H2, O)) @@ ("L" :> Vec(H2, O, O))
              @@ ("L_1" :> Vec(O, O, Neg(H2))) @@ ("P" :> Vec(eta, nu, nu))
              @@ ("P_1" :> Vec(Minus(One, nu), Minus(One, nu), Minus(One, eta)))
              @@ ("P_2" :> Vec(nu, nu, Minus(eta, One)))
              @@ ("Q" :> Vec(Minus(One, nu), nu, O))
              @@ ("X" :> Vec(nu, O, Neg(nu))) @@ ("Z" :> Vec(H2, H2, H2)),
            << <<"\\Gamma", "L", "B_1">>, <<"B", "Z", "\\Gamma", "X">>,
               <<"Q", "F", "P_1", "Z">>, <<"L", "P">> >>)

rhl2(alpha) ==
    LET eta == Over(One, Times(Num(2), tan2half(alpha)))
        nu == Minus(Frac(3, 4), Over(eta, Num(2)))
    IN  Gen("RHL2",
            ("\\Gamma" :> Vec(O, O, O)) @@ ("F" :> Vec(H2, Neg(H2), O))
              @@ ("L" :> Vec(H2, O, O))
              @@ ("P" :> Vec(Minus(One, nu), Neg(nu), Minus(One, nu)))
              @@ ("P_1" :> Vec(nu, Minus(nu, One), Minus(nu, One)))
              @@ ("Q" :> Vec(eta, eta, eta))
              @@ ("Q_1" :> Vec(Minus(One, eta), Neg(eta), Neg(eta)))
              @@ ("Z" :> Vec(H2, Neg(H2), H2)),
            << <<"\\Gamma", "P", "Z", "Q", "\\Gamma",
                 "F", "P_1", "Q_1", "L", "Z">> >>)

mcl(b, c, alpha) ==
    LET eta == Over(Minus(One, Over(Times(b, cos(alpha)), c)),
                    Times(Num(2), sin2(alpha)))
        nu == Minus(H2, Over(Times(Times(eta, c), cos(alpha)), b))
    IN  Gen("MCL",
            ("\\Gamma" :> Vec(O, O, O)) @@ ("A" :> Vec(H2, H2, O))
              @@ ("C" :> Vec(O, H2, H2)) @@ ("D" :> Vec(H2, O, H2))
              @@ ("D_1" :> Vec(H2, H2, Neg(H2))) @@ ("E" :> Vec(H2, H2, H2))
              @@ ("H" :> Vec(O, eta, Minus(One, nu)))
              @@ ("H_1" :> Vec(O, Minus(One, eta), nu))
              @@ ("H_2" :> Vec(O, eta, Neg(nu)))
              @@ ("M" :> Vec(H2, eta, Minus(One, nu)))
              @@ ("M_1" :> Vec(H2, Minus(One, eta), nu))
              @@ ("M_2" :> Vec(H2, Minus(One, eta), nu))
              @@ ("X" :> Vec(O, H2, O)) @@ ("Y" :> Vec(O, O, H2))
              @@ ("Y_1" :> Vec(O, O, Neg(H2))) @@ ("Z" :> Vec(H2, O, O)),
            << <<"\\Gamma", "Y", "H", "C", "E", "M_1", "A", "X", "H_1">>,
               <<"M", "D", "Z">>, <<"Y", "D">> >>)

mclc1(a, b, c, alpha) ==
    LET zeta == Over(Minus(Num(2), Over(Times(b, cos(alpha)), c)),
                     Times(Num(4), sin2(alpha)))
        eta == Plus(H2, Over(Times(Times(Times(Num(2), zeta), c), cos(alpha)), b))
        psi == Minus(Frac(3, 4), Over(Sq(a), Times(Times(Num(4), Sq(b)), sin2(alpha))))
        phi == Plus(psi, Over(Times(Times(Minus(Frac(3, 4), psi), b), cos(alpha)), c))
    IN  Gen("MCLC1",
            ("\\Gamma" :> Vec(O, O, O)) @@ ("N" :> Vec(H2, O, O))
              @@ ("N_1" :> Vec(O, Neg(H2), O))
              @@ ("F" :> Vec(Minus(One, zeta), Minus(One, zeta), Minus(One, eta)))
              @@ ("F_1" :> Vec(zeta, zeta, eta))
              @@ ("F_2" :> Vec(Neg(zeta), Neg(zeta), Minus(One, eta)))
              @@ ("I" :> Vec(phi, Minus(One, phi), H2))
              @@ ("I_1" :> Vec(Minus(One, phi), Minus(phi, One), H2))
              @@ ("L" :> Vec(H2, H2, H2)) @@ ("M" :> Vec(H2, O, H2))
              @@ ("X" :> Vec(Minus(One, psi), Minus(psi, One), O))
              @@ ("X_1" :> Vec(psi, Minus(One, psi), O))
              @@ ("X_2" :> Vec(Minus(psi, One), Neg(psi), O))
              @@ ("Y" :> Vec(H2, H2, O)) @@ ("Y_1" :> Vec(Neg(H2), Neg(H2), O))
              @@ ("Z" :> Vec(O, O, H2)),
            << <<"\\Gamma", "Y", "F", "L", "I">>, <<"I_1", "Z", "F_1">>,
               <<"Y", "X_1">>, <<"X", "\\Gamma", "N">>, <<"M", "\\Gamma">> >>)

mclc2(a, b, c, alpha) ==
    LET zeta == Over(Minus(Num(2), Over(Times(b, cos(alpha)), c)),
                     Times(Num(4), sin2(alpha)))
        eta == Plus(H2, Over(Times(Times(Times(Num(2), zeta), c), cos(alpha)), b))
        psi == Minus(Frac(3, 4), Over(Sq(a), Times(Times(Num(4), Sq(b)), sin2(alpha))))
        phi == Plus(psi, Over(Times(Times(Minus(Frac(3, 4), psi), b), cos(alpha)), c))
    IN  Gen("MCLC2",
            ("\\Gamma" :> Vec(O, O, O)) @@ ("N" :> Vec(H2, O, O))
              @@ ("N_1" :> Vec(O, Neg(H2), O))
              @@ ("F" :> Vec(Minus(One, zeta), Minus(One, zeta), Minus(One, eta)))
              @@ ("F_1" :> Vec(zeta, zeta, eta))
              @@ ("F_2" :> Vec(Neg(zeta), Neg(zeta), Minus(One, eta)))
              @@ ("F_3" :> Vec(Minus(One, zeta), Neg(zeta), Minus(One, eta)))
              @@ ("I" :> Vec(phi, Minus(One, phi), H2))
              @@ ("I_1" :> Vec(Minus(One, phi), Minus(phi, One), H2))
              @@ ("L" :> Vec(H2, H2, H2)) @@ ("M" :> Vec(H2, O, H2))
              @@ ("X" :> Vec(Minus(One, psi), Minus(psi, One), O))
              @@ ("X_1" :> Vec(psi, Minus(One, psi), O))
              @@ ("X_2" :> Vec(Minus(psi, One), Neg(psi), O))
              @@ ("Y" :> Vec(H2, H2, O)) @@ ("Y_1" :> Vec(Neg(H2), Neg(H2), O))
              @@ ("Z" :> Vec(O, O, H2)),
            << <<"\\Gamma", "Y", "F", "L", "I">>, <<"I_1", "Z", "F_1">>,
               <<"N", "\\Gamma", "M">> >>)

mclc3(a, b, c, alpha) ==
    LET mu == Over(Plus(One, Over(Sq(b), Sq(a))), Num(4))
        delta == Over(Times(Times(b, c), cos(alpha)), Times(Num(2), Sq(a)))
        zeta == Plus(Minus(mu, Q4),
                     Over(Minus(One, Over(Times(b, cos(alpha)), c)),
                          Times(Num(4), sin2(alpha))))
        eta == Plus(H2, Over(Times(Times(Times(Num(2), zeta), c), cos(alpha)), b))
        phi == Minus(Plus(One, zeta), Times(Num(2), mu))
        psi == Minus(eta, Times(Num(2), delta))
    IN  Gen("MCLC3",
            ("\\Gamma" :> Vec(O, O, O))
              @@ ("F" :> Vec(Minus(One, phi), Minus(One, phi), Minus(One, psi)))
              @@ ("F_1" :> Vec(phi, Minus(phi, One), psi))
              @@ ("F_2" :> Vec(Minus(One, phi), Neg(phi), Minus(One, psi)))
              @@ ("H" :> Vec(zeta, zeta, eta))
              @@ ("H_1" :> Vec(Minus(One, zeta), Neg(zeta), Minus(One, eta)))
              @@ ("H_2" :> Vec(Neg(zeta), Neg(zeta), Minus(One, eta)))
              @@ ("I" :> Vec(H2, Neg(H2), H2)) @@ ("M" :> Vec(H2, O, H2))
              @@ ("N" :> Vec(H2, O, O)) @@ ("N_1" :> Vec(O, Neg(H2), O))
              @@ ("X" :> Vec(H2, Neg(H2), O)) @@ ("Y" :> Vec(mu, mu, delta))
              @@ ("Y_1" :> Vec(Minus(One, mu), Neg(mu), Neg(delta)))
              @@ ("Y_2" :> Vec(Neg(mu), Neg(mu), Neg(delta)))
              @@ ("Y_3" :> Vec(mu, Minus(mu, One), delta))
              @@ ("Z" :> Vec(O, O, H2)),
            << <<"\\Gamma", "Y", "F", "H", "Z", "I", "F_1">>,
               <<"H_1", "Y_1", "X", "\\Gamma", "N">>, <<"M", "\\Gamma">> >>)

mclc4(a, b, c, alpha) ==
    LET mu == Over(Plus(One, Over(Sq(b), Sq(a))), Num(4))
        delta == Over(Times(Times(b, c), cos(alpha)), Times(Num(2), Sq(a)))
        zeta == Plus(Minus(mu, Q4),
                     Over(Minus(One, Over(Times(b, cos(alpha)), c)),
                          Times(Num(4), sin2(alpha))))
        eta == Plus(H2, Over(Times(Times(Times(Num(2), zeta), c), cos(alpha)), b))
        phi == Minus(Plus(One, zeta), Times(Num(2), mu))
        psi == Minus(eta, Times(Num(2), delta))
    IN  Gen("MCLC4",
            ("\\Gamma" :> Vec(O, O, O))
              @@ ("F" :> Vec(Minus(One, phi), Minus(One, phi), Minus(One, psi)))
              @@ ("F_1" :> Vec(phi, Minus(phi, One), psi))
              @@ ("F_2" :> Vec(Minus(One, phi), Neg(phi), Minus(One, psi)))
              @@ ("H" :> Vec(zeta, zeta, eta))
              @@ ("H_1" :> Vec(Minus(One, zeta), Neg(zeta), Minus(One, eta)))
              @@ ("H_2" :> Vec(Neg(zeta), Neg(zeta), Minus(One, eta)))
              @@ ("I" :> Vec(H2, Neg(H2), H2)) @@ ("M" :> Vec(H2, O, H2))
              @@ ("N" :> Vec(H2, O, O)) @@ ("N_1" :> Vec(O, Neg(H2), O))
              @@ ("X" :> Vec(H2, Neg(H2), O)) @@ ("Y" :> Vec(mu, mu, delta))
              @@ ("Y_1" :> Vec(Minus(One, mu), Neg(mu), Neg(delta)))
              @@ ("Y_2" :> Vec(Neg(mu), Neg(mu), Neg(delta)))
              @@ ("Y_3" :> Vec(mu, Minus(mu, One), delta))
              @@ ("Z" :> Vec(O, O, H2)),
            << <<"\\Gamma", "Y", "F", "H", "Z", "I">>,
               <<"H_1", "Y_1", "X", "\\Gamma", "N">>, <<"M", "\\Gamma">> >>)

mclc5(a, b, c, alpha) ==
    LET zeta == Over(Plus(Over(Sq(b), Sq(a)),
                          Over(Minus(One, Over(Times(b, cos(alpha)), c)), sin2(alpha))),
                     Num(4))
        eta == Plus(H2, Over(Times(Times(Times(Num(2), zeta), c), cos(alpha)), b))
        mu == Minus(Plus(Over(eta, Num(2)), Over(Sq(b), Times(Num(4), Sq(a)))),
                    Over(Times(Times(b, c), cos(alpha)), Times(Num(2), Sq(a))))
        nu == Minus(Times(Num(2), mu), zeta)
        rho == Minus(One, Over(Times(zeta, Sq(a)), Sq(b)))
        omega == Over(Times(Minus(Minus(Times(Num(4), nu), One),
                                  Over(Times(Sq(b), sin2(alpha)), Sq(a))),
                            c),
                      Times(Times(Num(2), b), cos(alpha)))
        delta == Minus(Plus(Over(Times(Times(zeta, c), cos(alpha)), b),
                            Over(omega, Num(2))),
                       Q4)
    IN  Gen("MCLC5",
            ("\\Gamma" :> Vec(O, O, O)) @@ ("F" :> Vec(nu, nu, omega))
              @@ ("F_1" :> Vec(Minus(One, nu), Minus(One, nu), Minus(One, omega)))
              @@ ("F_2" :> Vec(nu, Minus(nu, One), omega))
              @@ ("H" :> Vec(zeta, zeta, eta))
              @@ ("H_1" :> Vec(Minus(One, zeta), Neg(zeta), Minus(One, eta)))
              @@ ("H_2" :> Vec(Neg(zeta), Neg(zeta), Minus(One, eta)))
              @@ ("I" :> Vec(rho, Minus(One, rho), H2))
              @@ ("I_1" :> Vec(Minus(One, rho), Minus(rho, One), H2))
              @@ ("L" :> Vec(H2, H2, H2)) @@ ("M" :> Vec(H2, O, H2))
              @@ ("N" :> Vec(H2, O, O)) @@ ("N_1" :> Vec(O, Neg(H2), O))
              @@ ("X" :> Vec(H2, Neg(H2), O)) @@ ("Y" :> Vec(mu, mu, delta))
              @@ ("Y_1" :> Vec(Minus(One, mu), Neg(mu), Neg(delta)))
              @@ ("Y_2" :> Vec(Neg(mu), Neg(mu), Neg(delta)))
              @@ ("Y_3" :> Vec(mu, Minus(mu, One), delta))
              @@ ("Z" :> Vec(O, O, H2)),
            << <<"\\Gamma", "Y", "F", "L", "I">>, <<"I_1", "Z", "H", "F_1">>,
               <<"H_1", "Y_1", "X", "\\Gamma", "N">>, <<"M", "\\Gamma">> >>)

tria ==
    Gen("TRI1a",
        ("\\Gamma" :> Vec(O, O, O)) @@ ("L" :> Vec(H2, H2, O))
          @@ ("M" :> Vec(O, H2, H2)) @@ ("N" :> Vec(H2, O, H2))
          @@ ("R" :> Vec(H2, H2, H2)) @@ ("X" :> Vec(H2, O, O))
          @@ ("Y" :> Vec(O, H2, O)) @@ ("Z" :> Vec(O, O, H2)),
        << <<"X", "\\Gamma", "Y">>, <<"L", "\\Gamma", "Z">>,
           <<"N", "\\Gamma", "M">>, <<"R", "\\Gamma">> >>)

trib ==
    Gen("TRI1b",
        ("\\Gamma" :> Vec(O, O, O)) @@ ("L" :> Vec(H2, Neg(H2), O))
          @@ ("M" :> Vec(O, O, H2)) @@ ("N" :> Vec(Neg(H2), Neg(H2), H2))
          @@ ("R" :> Vec(O, Neg(H2), H2)) @@ ("X" :> Vec(O, Neg(H2), O))
          @@ ("Y" :> Vec(H2, O, O)) @@ ("Z" :> Vec(Neg(H2), O, H2)),
        << <<"X", "\\Gamma", "Y">>, <<"L", "\\Gamma", "Z">>,
           <<"N", "\\Gamma", "M">>, <<"R", "\\Gamma">> >>)

(* ----------------------------- the inputs ----------------------------- *)
\* Space-group symbols as the sequences of their characters.  The last two
\* are not Hermann-Mauguin symbols; they stand for any string that holds two
\* of the letters __init__ tests.
Symbols ==
    { <<"P", "m", "-", "3", "m">>, <<"F", "m", "-", "3", "m">>,
      <<"I", "m", "-", "3", "m">>, <<"C", "m", "c", "m">>,
      <<"A", "m", "m", "2">>, <<"P", "C">>, <<"F", "I">>, <<"P", "I">> }

\* lengths a, b, c of the conventional cell; 1/12^2 = 1/15^2 + 1/20^2
Cells ==
    { <<12, 12, 12>>, <<12, 15, 20>>, <<20, 15, 12>>, <<12, 20, 20>>,
      <<12, 20, 12>> }
\* the angle alpha of a monoclinic conventional cell, in degrees
MonoAngles == {60, 120}
\* the angle alpha of a rhombohedral primitive cell, in degrees
RhlAngles == {60, 90, 120}
\* the angles of the primitive reciprocal lattice, in degrees
RecAngles == {60, 90, 120}
\* matrices of the primitive reciprocal lattice (rows are its vectors)
RecMatrices ==
    { << <<1, 0, 0>>, <<0, 1, 0>>, <<0, 0, 1>> >>,
      << <<2, 0, 0>>, <<0, 2, 0>>, <<1, 1, 1>> >> }

LatticeTypes ==
    {"cubic", "tetragonal", "orthorhombic", "hexagonal", "rhombohedral",
     "monoclinic", "triclinic"}

\* What SymmetryFinder and the lattices report for a structure:
\*   lattice_type  get_lattice_type()        symbol  get_spacegroup_symbol()
\*   abc           _conv.lattice.abc         alpha   _conv ...lengths_and_angles[1][0]
\*   prim_alpha    _prim ...lengths_and_angles[1][0]
\*   rec_angles    _prim_rec.lengths_and_angles[1]   rec_matrix  _prim_rec
Struct(t, s, abc, al, pal, ra, m) ==
    [lattice_type |-> t, symbol |-> s, abc |-> abc, alpha |-> al,
     prim_alpha |-> pal, rec_angles |-> ra, rec_matrix |-> m]

Structures ==
    { Struct(t, s, abc, 90, 90, <<90, 90, 90>>, m) :
        t \in {"cubic", "tetragonal", "orthorhombic", "hexagonal", "trigonal"},
        s \in Symbols, abc \in Cells, m \in RecMatrices }
    \cup
    { Struct("rhombohedral", s, <<12, 12, 12>>, 90, pal, <<90, 90, 90>>, m) :
        s \in Symbols, pal \in RhlAngles, m \in RecMatrices }
    \cup
    { Struct("monoclinic", s, abc, al, 90, <<90, 90, kg>>, m) :
        s \in Symbols, abc \in Cells, al \in MonoAngles, kg \in RecAngles,
        m \in RecMatrices }
    \cup
    { Struct("triclinic", s, <<12, 15, 20>>, 90, 90, <<ka, kb, kg>>, m) :
        s \in {<<"P", "m", "-", "3", "m">>}, ka \in RecAngles, kb \in RecAngles,
        kg \in RecAngles, m \in RecMatrices }

(* ----------------------------- __init__ -------------------------------- *)
\* the value None of self._kpath, and an instance attribute that was never set
None == [none |-> TRUE]
NoAttr == "<no attribute>"

\* Python's `letter in symbol`
In(letter, symbol) == \E k \in DOMAIN symbol : symbol[k] = letter

GenRaised(g) ==
    \E l \in DOMAIN g.kpoints : \E j \in 1..3 : Raised(g.kpoints[l][j])

\* self._kpath = self.<generator>(...): the generator sets self._name, then
\* evaluates its formulas, and its result is assigned unless it raised
Assign(st, g) ==
    IF st.exc # "none" THEN st
    ELSE IF GenRaised(g)
         THEN [st EXCEPT !._name = g.name, !.exc = "ZeroDivisionError"]
         ELSE [_kpath |-> [none |-> FALSE, kpoints |-> g.kpoints, path |-> g.path],
               _name |-> g.name, exc |-> "none"]

Raise(st) == IF st.exc # "none" THEN st ELSE [st EXCEPT !.exc = "ZeroDivisionError"]

\* `if <cond>: self._kpath = self.<generator>(...)` executed on st
IfAssign(cond, st, g) == IF cond THEN Assign(st, g) ELSE st

\* Mutation of init_cubic: the letter I is tested before the letter F
init_cubic_I_before_F(st, symbol) ==
    IfAssign(In("F", symbol),
             IfAssign(In("I", symbol),
                      IfAssign(In("P", symbol), st, cubic),
                      bcc),
             fcc)

\* Mutation of init_cubic: the rows of the letters F and I are exchanged
init_cubic_F_for_I(st, symbol) ==
    IfAssign(In("I", symbol),
             IfAssign(In("F", symbol),
                      IfAssign(In("P", symbol), st, cubic),
                      bcc),
             fcc)

\* Mutation of init_cubic: the row of the letter I is missing
init_cubic_without_I(st, symbol) ==
    IfAssign(In("F", symbol), IfAssign(In("P", symbol), st, cubic), fcc)

\* lines 46-52: the three ifs in the order of the code
init_cubic(st, symbol) ==
    IfAssign(In("I", symbol),
             IfAssign(In("F", symbol),
                      IfAssign(In("P", symbol), st, cubic),
                      fcc),
             bcc)

\* Mutation of select_bct: the tie c == a goes to bctet1
select_bct_tie_first(st, a, c) ==
    IF c <= a THEN Assign(st, bctet1(Num(c), Num(a)))
    ELSE Assign(st, bctet2(Num(c), Num(a)))

\* lines 58-62: a is abc[0], c is abc[2]
select_bct(st, a, c) ==
    IF c < a THEN Assign(st, bctet1(Num(c), Num(a)))
    ELSE Assign(st, bctet2(Num(c), Num(a)))

init_tetragonal(st, symbol, abc) ==
    IF In("I", symbol)
    THEN select_bct(IfAssign(In("P", symbol), st, tet), abc[1], abc[3])
    ELSE IfAssign(In("P", symbol), st, tet)

\* Mutation of select_orcf: the tie goes to orcf1
select_orcf_tie_first(st, a, b, c) ==
    LET lhs == Over(One, Sq(a))
        rhs == Plus(Over(One, Sq(b)), Over(One, Sq(c)))
    IN  IF st.exc # "none" THEN st
        ELSE IF Raised(lhs) \/ Raised(rhs) THEN Raise(st)
        ELSE IF ~Less(lhs, rhs) THEN Assign(st, orcf1(a, b, c))
        ELSE Assign(st, orcf2(a, b, c))

\* lines 71-77: 1 / a ** 2 against 1 / b ** 2 + 1 / c ** 2
select_orcf(st, a, b, c) ==
    LET lhs == Over(One, Sq(a))
        rhs == Plus(Over(One, Sq(b)), Over(One, Sq(c)))
    IN  IF st.exc # "none" THEN st
        ELSE IF Raised(lhs) \/ Raised(rhs) THEN Raise(st)
        ELSE IF Less(rhs, lhs) THEN Assign(st, orcf1(a, b, c))
        ELSE IF Less(lhs, rhs) THEN Assign(st, orcf2(a, b, c))
        ELSE Assign(st, orcf3(a, b, c))

init_orthorhombic_F(st, symbol, a, b, c) ==
    IF In("F", symbol)
    THEN select_orcf(IfAssign(In("P", symbol), st, orc), a, b, c)
    ELSE IfAssign(In("P", symbol), st, orc)

init_orthorhombic(st, symbol, abc) ==
    IfAssign(In("C", symbol),
             IfAssign(In("I", symbol),
                      init_orthorhombic_F(st, symbol, Num(abc[1]), Num(abc[2]),
                                          Num(abc[3])),
                      orci(Num(abc[1]), Num(abc[2]), Num(abc[3]))),
             orcc(Num(abc[1]), Num(abc[2]), Num(abc[3])))

init_hexagonal(st) == Assign(st, hex)

\* Mutation of init_rhombohedral: the tie alpha == 90 goes to rhl1
init_rhombohedral_tie_first(st, alpha) ==
    IF alpha <= 90 THEN Assign(st, rhl1(TimesPiOver180(alpha)))
    ELSE Assign(st, rhl2(TimesPiOver180(alpha)))

init_rhombohedral(st, alpha) ==
    IF alpha < 90 THEN Assign(st, rhl1(TimesPiOver180(alpha)))
    ELSE Assign(st, rhl2(TimesPiOver180(alpha)))

\* b * cos(alpha * pi / 180) / c + b ** 2 * sin(alpha) ** 2 / a ** 2
mclc_ratio(a, b, c, alpha) ==
    Plus(Over(Times(b, cos(TimesPiOver180(alpha))), c),
         Over(Times(Sq(b), sin2(Plain(alpha))), Sq(a)))

\* lines 111-118: the three ifs on the ratio, each evaluating it anew
select_mclc_lt90(st, a, b, c, alpha) ==
    LET ratio == mclc_ratio(a, b, c, alpha)
    IN  IF st.exc # "none" THEN st
        ELSE IF Raised(ratio) THEN Raise(st)
        ELSE IfAssign(Less(One, ratio),
                      IfAssign(Equal(ratio, One),
                               IfAssign(Less(ratio, One), st,
                                        mclc3(a, b, c, TimesPiOver180(alpha))),
                               mclc4(a, b, c, TimesPiOver180(alpha))),
                      mclc5(a, b, c, TimesPiOver180(alpha)))

\* Mutation of select_mclc_ge90: kgamma == 90 is treated as kgamma > 90
select_mclc_ge90_merged(st, a, b, c, alpha, kgamma) ==
    IfAssign(kgamma >= 90, st, mclc1(a, b, c, TimesPiOver180(alpha)))

\* lines 104-110: kgamma > 90, kgamma == 90, kgamma < 90
select_mclc_ge90(st, a, b, c, alpha, kgamma) ==
    IfAssign(kgamma = 90,
             IfAssign(kgamma > 90, st, mclc1(a, b, c, TimesPiOver180(alpha))),
             mclc2(a, b, c, TimesPiOver180(alpha)))

select_mclc(st, a, b, c, alpha, kgamma) ==
    IF kgamma < 90 THEN select_mclc_lt90(st, a, b, c, alpha)
    ELSE select_mclc_ge90(st, a, b, c, alpha, kgamma)

init_monoclinic_P(st, symbol, b, c, alpha) ==
    IfAssign(In("P", symbol), st, mcl(b, c, TimesPiOver180(alpha)))

init_monoclinic(st, symbol, abc, alpha, rec_angles) ==
    IF In("C", symbol)
    THEN select_mclc(init_monoclinic_P(st, symbol, Num(abc[2]), Num(abc[3]), alpha),
                     Num(abc[1]), Num(abc[2]), Num(abc[3]), alpha, rec_angles[3])
    ELSE init_monoclinic_P(st, symbol, Num(abc[2]), Num(abc[3]), alpha)

\* lines 120-131: the four ifs on the reciprocal angles
init_triclinic_obtuse(st, kalpha, kbeta, kgamma) ==
    IfAssign(kalpha < 90 /\ kbeta < 90 /\ kgamma < 90,
             IfAssign(kalpha > 90 /\ kbeta > 90 /\ kgamma > 90, st, tria),
             trib)

init_triclinic(st, rec_angles) ==
    IfAssign(rec_angles[1] < 90 /\ rec_angles[2] < 90 /\ rec_angles[3] = 90,
             IfAssign(rec_angles[1] > 90 /\ rec_angles[2] > 90 /\ rec_angles[3] = 90,
                      init_triclinic_obtuse(st, rec_angles[1], rec_angles[2],
                                            rec_angles[3]),
                      tria),
             trib)

\* HighSymmKpath.__init__: the attributes of the new instance, and the
\* exception the constructor raised ("none" when it returned)
init(s) ==
    LET st == [_kpath |-> None, _name |-> NoAttr, exc |-> "none"]
        t == s.lattice_type
    IN  IF t = "cubic" THEN init_cubic(st, s.symbol)
        ELSE IF t = "tetragonal" THEN init_tetragonal(st, s.symbol, s.abc)
        ELSE IF t = "orthorhombic" THEN init_orthorhombic(st, s.symbol, s.abc)
        ELSE IF t = "hexagonal" THEN init_hexagonal(st)
        ELSE IF t = "rhombohedral" THEN init_rhombohedral(st, s.prim_alpha)
        ELSE IF t = "monoclinic"
             THEN init_monoclinic(st, s.symbol, s.abc, s.alpha, s.rec_angles)
        ELSE IF t = "triclinic" THEN init_triclinic(st, s.rec_angles)
        ELSE st

(* ---------------------------- get_kpoints ------------------------------ *)
\* element idx of a Python list (indices from 0)
At(list, idx) == list[idx + 1]

\* Lattice.get_cartesian_coords of the reciprocal lattice: the product of
\* the row vector of fractional coordinates with the lattice matrix
get_cartesian_coords(m, frac) ==
    << Plus(Plus(Times(frac[1], Num(m[1][1])), Times(frac[2], Num(m[2][1]))),
            Times(frac[3], Num(m[3][1]))),
       Plus(Plus(Times(frac[1], Num(m[1][2])), Times(frac[2], Num(m[2][2]))),
            Times(frac[3], Num(m[3][2]))),
       Plus(Plus(Times(frac[1], Num(m[1][3])), Times(frac[2], Num(m[2][3]))),
            Times(frac[3], Num(m[3][3]))) >>

VecMinus(u, v) == <<Minus(u[1], v[1]), Minus(u[2], v[2]), Minus(u[3], v[3])>>
VecPlus(u, v) == <<Plus(u[1], v[1]), Plus(u[2], v[2]), Plus(u[3], v[3])>>
VecScale(k, u) == <<Times(k, u[1]), Times(k, u[2]), Times(k, u[3])>>

\* np.linalg.norm(u) ** 2
norm2(u) == Plus(Plus(Sq(u[1]), Sq(u[2])), Sq(u[3]))

\* int(ceil(sqrt(q) * density)) for q >= 0: the least n >= 0 with
\* n * n >= q * density * density
ceil_sqrt_times(q, density) ==
    LET x2 == Times(q, Num(density * density))
        top == (x2[1] \div x2[2]) + 1
    IN  CHOOSE n \in 0..top :
            /\ ~Less(Num(n * n), x2)
            /\ \A k \in 0..(n - 1) : Less(Num(k * k), x2)

\* Mutation of sample_leg: a leg after the first of its segment does not
\* emit its start again
sample_leg_deduplicated(kpath, m, b, i, line_density) ==
    LET start == kpath.kpoints[At(b, i - 1)]
        end == kpath.kpoints[At(b, i)]
        cart_start == get_cartesian_coords(m, start)
        cart_end == get_cartesian_coords(m, end)
        distance2 == norm2(VecMinus(cart_start, cart_end))
        nb == ceil_sqrt_times(distance2, line_density)
        step == VecMinus(cart_end, cart_start)
        skip == IF i > 1 THEN 1 ELSE 0
    IN  IF nb = 0
        THEN [exc |-> "ZeroDivisionError", points |-> <<>>, i |-> 0]
        ELSE [exc |-> "none",
              points |->
                [k \in 1..(nb + 1 - skip) |->
                    VecPlus(cart_start, VecScale(Frac(k - 1 + skip, nb), step))],
              i |-> nb]

\* one pass of the body of `for i in range(1, len(b))` (lines 164-173): the
\* points the list comprehension yields, the exception it raises, and the
\* value its loop variable i is left with
sample_leg(kpath, m, b, i, line_density) ==
    LET start == kpath.kpoints[At(b, i - 1)]
        end == kpath.kpoints[At(b, i)]
        cart_start == get_cartesian_coords(m, start)
        cart_end == get_cartesian_coords(m, end)
        distance2 == norm2(VecMinus(cart_start, cart_end))
        nb == ceil_sqrt_times(distance2, line_density)
        step == VecMinus(cart_end, cart_start)
    IN  IF nb = 0
        THEN [exc |-> "ZeroDivisionError", points |-> <<>>, i |-> 0]
        ELSE [exc |-> "none",
              points |->
                [k \in 1..(nb + 1) |->
                    VecPlus(cart_start, VecScale(Frac(k - 1, nb), step))],
              i |-> nb]

\* the loop `for i in range(1, len(b))`: taken is the number of items the
\* loop has drawn from range(1, len(b)); acc holds list_k_points, the
\* exception raised so far and the current value of the variable i
RECURSIVE walk_legs(_, _, _, _, _, _)
\* Mutation of walk_legs: the loop over the legs goes on from the value the
\* interpolation index left in i when that is the larger one
walk_legs_leaked_index(kpath, m, b, taken, line_density, acc) ==
    IF acc.exc # "none" \/ taken >= Len(b) - 1 THEN acc
    ELSE LET i == taken + 1
             leg == sample_leg(kpath, m, b, i, line_density)
         IN  walk_legs(kpath, m, b,
                       IF leg.i > taken + 1 THEN leg.i ELSE taken + 1,
                       line_density,
                       [exc |-> leg.exc,
                        list_k_points |-> acc.list_k_points \o leg.points,
                        i |-> leg.i])

walk_legs(kpath, m, b, taken, line_density, acc) ==
    IF acc.exc # "none" \/ taken >= Len(b) - 1 THEN acc
    ELSE LET i == taken + 1
             leg == sample_leg(kpath, m, b, i, line_density)
         IN  walk_legs(kpath, m, b, taken + 1, line_density,
                       [exc |-> leg.exc,
                        list_k_points |-> acc.list_k_points \o leg.points,
                        i |-> leg.i])

\* the loop `for b in self.kpath['path']`
RECURSIVE walk_path(_, _, _, _, _)
walk_path(kpath, m, nseg, line_density, acc) ==
    IF acc.exc # "none" \/ nseg >= Len(kpath.path) THEN acc
    ELSE walk_path(kpath, m, nseg + 1, line_density,
                   walk_legs(kpath, m, At(kpath.path, nseg), 0, line_density, acc))

\* HighSymmKpath.get_kpoints(line_density): the list returned, or the
\* exception raised (subscripting None raises TypeError)
get_kpoints(kpath, m, line_density) ==
    IF kpath = None
    THEN [exc |-> "TypeError", list_k_points |-> <<>>, i |-> 0]
    ELSE walk_path(kpath, m, 0, line_density,
                   [exc |-> "none", list_k_points |-> <<>>, i |-> 0])

(* --------------------------- the state machine ------------------------- *)
VARIABLES
    structure,      \* the structure handed to the constructor
    pc,             \* "new": not constructed; "ready": an instance exists;
                    \* "raised": the constructor raised
    _kpath,         \* self._kpath
    _name,          \* self._name
    ret,            \* the last call: its name, argument, exception, result
    cwd,            \* os.getcwd(): 0 is the directory the process started
                    \* in, n > 0 the n-th temporary directory
    temp_dirs,      \* the temporary directories that exist
    zeo             \* the last call of a zeoio function

vars == <<structure, pc, _kpath, _name, ret, cwd, temp_dirs, zeo>>

Ret(op, arg, exc, val) == [op |-> op, arg |-> arg, exc |-> exc, val |-> val]

\* a call of a zeoio function: its name, the outputs of Zeo++ it read, the
\* exception it raised, the value it returned, the working directory it was
\* called in and the temporary directory it made
ZeoRet(op, arg, exc, val, before, temp_dir) ==
    [op |-> op, arg |-> arg, exc |-> exc, val |-> val, before |-> before,
     temp_dir |-> temp_dir]

\* the process before any zeoio function was called
InitProcess ==
    /\ cwd = 0
    /\ temp_dirs = {}
    /\ zeo = ZeoRet("none", <<>>, "none", <<>>, 0, 0)

Init ==
    /\ structure \in Structures
    /\ pc = "new"
    /\ _kpath = None
    /\ _name = NoAttr
    /\ ret = Ret("none", 0, "none", <<>>)
    /\ InitProcess

\* HighSymmKpath(structure): a new instance is constructed from the structure
\* (ret.arg is 1 for the first construction and 2 for a later one)
Constructed(st) ==
    /\ pc' = IF st.exc = "none" THEN "ready" ELSE "raised"
    /\ _kpath' = st._kpath
    /\ _name' = st._name
    /\ ret' = Ret("__init__", IF pc = "new" THEN 1 ELSE 2, st.exc, <<>>)

Construct ==
    /\ Constructed(init(structure))
    /\ UNCHANGED <<structure, cwd, temp_dirs, zeo>>

\* the property kpath
kpath ==
    /\ pc = "ready"
    /\ ret' = Ret("kpath", 0, "none", _kpath)
    /\ UNCHANGED <<structure, pc, _kpath, _name, cwd, temp_dirs, zeo>>

\* the property name: AttributeError when no generator has set self._name
name ==
    /\ pc = "ready"
    /\ ret' = IF _name = NoAttr
              THEN Ret("name", 0, "AttributeError", <<>>)
              ELSE Ret("name", 0, "none", _name)
    /\ UNCHANGED <<structure, pc, _kpath, _name, cwd, temp_dirs, zeo>>

\* what a call of get_kpoints hands back: the list, or the exception
Sampled(line_density, r) ==
    Ret("get_kpoints", line_density, r.exc,
        IF r.exc = "none" THEN r.list_k_points ELSE <<>>)

\* Mutation of GetKpoints: list_k_points outlives the call, and a call
\* extends the list of the call before it
GetKpoints_shared_list(line_density) ==
    /\ pc = "ready"
    /\ ret' = Ret("get_kpoints", line_density,
                  get_kpoints(_kpath, structure.rec_matrix, line_density).exc,
                  (IF ret.op = "get_kpoints" THEN ret.val ELSE <<>>)
                    \o get_kpoints(_kpath, structure.rec_matrix,
                                   line_density).list_k_points)
    /\ UNCHANGED <<structure, pc, _kpath, _name, cwd, temp_dirs, zeo>>

GetKpoints(line_density) ==
    /\ pc = "ready"
    /\ ret' = Sampled(line_density,
                      get_kpoints(_kpath, structure.rec_matrix, line_density))
    /\ UNCHANGED <<structure, pc, _kpath, _name, cwd, temp_dirs, zeo>>

\* The path generators as the public methods they are: the method named g
\* called with the tuple args of its positional arguments (an angle is
\* given in degrees and handed over as alpha * pi / 180)
GeneratorNames ==
    {"cubic", "fcc", "bcc", "tet", "bctet1", "bctet2", "orc", "orcf1", "orcf2",
     "orcf3", "orci", "orcc", "hex", "rhl1", "rhl2", "mcl", "mclc1", "mclc2",
     "mclc3", "mclc4", "mclc5", "tria", "trib"}

Generate(g, args) ==
    CASE g = "cubic" -> cubic
      [] g = "fcc" -> fcc
      [] g = "bcc" -> bcc
      [] g = "tet" -> tet
      [] g = "bctet1" -> bctet1(Num(args[1]), Num(args[2]))
      [] g = "bctet2" -> bctet2(Num(args[1]), Num(args[2]))
      [] g = "orc" -> orc
      [] g = "orcf1" -> orcf1(Num(args[1]), Num(args[2]), Num(args[3]))
      [] g = "orcf2" -> orcf2(Num(args[1]), Num(args[2]), Num(args[3]))
      [] g = "orcf3" -> orcf3(Num(args[1]), Num(args[2]), Num(args[3]))
      [] g = "orci" -> orci(Num(args[1]), Num(args[2]), Num(args[3]))
      [] g = "orcc" -> orcc(Num(args[1]), Num(args[2]), Num(args[3]))
      [] g = "hex" -> hex
      [] g = "rhl1" -> rhl1(TimesPiOver180(args[1]))
      [] g = "rhl2" -> rhl2(TimesPiOver180(args[1]))
      [] g = "mcl" -> mcl(Num(args[1]), Num(args[2]), TimesPiOver180(args[3]))
      [] g = "mclc1" ->
           mclc1(Num(args[1]), Num(args[2]), Num(args[3]), TimesPiOver180(args[4]))
      [] g = "mclc2" ->
           mclc2(Num(args[1]), Num(args[2]), Num(args[3]), TimesPiOver180(args[4]))
      [] g = "mclc3" ->
           mclc3(Num(args[1]), Num(args[2]), Num(args[3]), TimesPiOver180(args[4]))
      [] g = "mclc4" ->
           mclc4(Num(args[1]), Num(args[2]), Num(args[3]), TimesPiOver180(args[4]))
      [] g = "mclc5" ->
           mclc5(Num(args[1]), Num(args[2]), Num(args[3]), TimesPiOver180(args[4]))
      [] g = "tria" -> tria
      [] g = "trib" -> trib

\* instance.<g>(*args): the method sets self._name, evaluates its formulas
\* and returns the dictionary r; self._kpath is not touched
Generated(g, args, r) ==
    /\ _name' = r.name
    /\ ret' = IF GenRaised(r)
              THEN Ret(g, args, "ZeroDivisionError", <<>>)
              ELSE Ret(g, args, "none", [kpoints |-> r.kpoints, path |-> r.path])

CallGenerator(g, args) ==
    /\ pc = "ready"
    /\ Generated(g, args, Generate(g, args))
    /\ UNCHANGED <<structure, pc, _kpath, cwd, temp_dirs, zeo>>

Next ==
    \/ Construct
    \/ kpath
    \/ name
    \/ \E line_density \in 1..MaxDensity : GetKpoints(line_density)

Spec == Init /\ [][Next]_vars

\* The generators called as methods: instances of a few structures, on
\* which any generator is called with lengths of GeneratorCells and the
\* angles it is tabulated for
GeneratorStructures ==
    { s \in Structures :
        /\ s.lattice_type \in {"cubic", "tetragonal", "trigonal"}
        /\ s.symbol = <<"I", "m", "-", "3", "m">>
        /\ s.abc = <<12, 15, 20>>
        /\ s.rec_matrix = << <<1, 0, 0>>, <<0, 1, 0>>, <<0, 0, 1>> >> }

GeneratorCells == { <<12, 12, 12>>, <<12, 15, 20>>, <<20, 15, 12>> }

ArgsOf(g) ==
    IF g \in {"bctet1", "bctet2"}
    THEN { <<abc[3], abc[1]>> : abc \in GeneratorCells }
    ELSE IF g \in {"orcf1", "orcf2", "orcf3", "orci", "orcc"}
    THEN GeneratorCells
    ELSE IF g = "rhl1" THEN { <<60>> }
    ELSE IF g = "rhl2" THEN { <<90>>, <<120>> }
    ELSE IF g = "mcl"
    THEN { <<abc[2], abc[3], alpha>> : abc \in GeneratorCells, alpha \in MonoAngles }
    ELSE IF g \in {"mclc1", "mclc2", "mclc3", "mclc4", "mclc5"}
    THEN { <<abc[1], abc[2], abc[3], alpha>> :
             abc \in GeneratorCells, alpha \in MonoAngles }
    ELSE { <<>> }

InitGenerators ==
    /\ structure \in GeneratorStructures
    /\ pc = "new"
    /\ _kpath = None
    /\ _name = NoAttr
    /\ ret = Ret("none", 0, "none", <<>>)
    /\ InitProcess

NextGenerators ==
    \/ Construct
    \/ \E g \in GeneratorNames : \E args \in ArgsOf(g) : CallGenerator(g, args)

SpecGenerators == InitGenerators /\ [][NextGenerators]_vars

\* Construction from cells that are not physical: a length that is zero or
\* negative where the lattice type has generators taking lengths
DegenerateCells ==
    { <<0, 15, 20>>, <<12, 15, 0>>, <<12, 0, 20>>, <<-12, 15, 20>> }

DegenerateStructures ==
    { Struct(t, s, abc, 90, 90, <<90, 90, 90>>, m) :
        t \in {"tetragonal", "orthorhombic"},
        s \in Symbols, abc \in DegenerateCells, m \in RecMatrices }

InitDegenerate ==
    /\ structure \in DegenerateStructures
    /\ pc = "new"
    /\ _kpath = None
    /\ _name = NoAttr
    /\ ret = Ret("none", 0, "none", <<>>)
    /\ InitProcess

SpecDegenerate == InitDegenerate /\ [][Next]_vars

(* ------------------------------- zeoio --------------------------------- *)
\* the temporary directories tempfile.mkdtemp() may make, and the lines an
\* output of Zeo++ may hold
MaxTempDirs == 2
MaxLines == 2

\* float(token) of the tokens of the outputs
float(token) ==
    CASE token = "0" -> Num(0)
      [] token = "1" -> Num(1)
      [] token = "2" -> Num(2)
      [] token = "0.0" -> Num(0)
      [] token = "12.5" -> Frac(25, 2)

\* a line of an output, as line.split() sees it
ZeoLines ==
    { <<"@", "temp_zeo", "Unitcell_volume:", "307.5">>,
      <<"Number_of_pockets:", "1", "Pocket_value:", "12.5">>,
      <<"Number_of_pockets:", "1", "Pocket_value:", "0.0">>,
      <<"Number_of_pockets:", "2", "Pocket_value:", "12.5">>,
      <<"Number_of_pockets:", "0", "Pocket_value:">> }

\* str.split("\n") of an output of volume() or surface_area()
ZeoOutputs == UNION { [1..n -> ZeoLines] : n \in 0..MaxLines }

\* "Number_of_pockets" in line
HasPockets(line) == \E k \in DOMAIN line : line[k] = "Number_of_pockets:"

\* one pass of `for line in out.split("\n")` (lines 254-259 and 260-265) on
\* acc, the value found so far and the exception raised
scan_line(acc, line) ==
    IF acc.exc # "none" \/ ~HasPockets(line) THEN acc
    ELSE IF Less(Num(1), float(line[2]))
         THEN [acc EXCEPT !.exc = "ValueError: Too many voids"]
         ELSE IF Len(line) < 4 THEN [acc EXCEPT !.exc = "IndexError"]
         ELSE [acc EXCEPT !.found = float(line[4])]

RECURSIVE scan_lines(_, _, _)
scan_lines(out, k, acc) ==
    IF k > Len(out) THEN acc ELSE scan_lines(out, k + 1, scan_line(acc, out[k]))

\* Python's `not x` for x a float or None
Not(x) == x = None \/ x = Num(0)

\* lines 252-267: the value returned or the exception raised for the
\* outputs vol_str and sa_str
parse_voids(vol_str, sa_str, vol, sa) ==
    IF vol.exc # "none" THEN [exc |-> vol.exc, val |-> <<>>]
    ELSE IF sa.exc # "none" THEN [exc |-> sa.exc, val |-> <<>>]
    ELSE IF Not(vol.found) \/ Not(sa.found)
         THEN [exc |-> "ValueError: No voids present. Check input structure",
               val |-> <<>>]
         ELSE [exc |-> "none", val |-> <<vol.found, sa.found>>]

void_volume_surfarea(vol_str, sa_str) ==
    parse_voids(vol_str, sa_str,
                scan_lines(vol_str, 1, [exc |-> "none", found |-> None]),
                scan_lines(sa_str, 1, [exc |-> "none", found |-> None]))

\* get_voronoi_nodes (lines 206-227): temp_dir is the directory mkdtemp
\* makes; when Zeo++ or the file handling raises (ok is FALSE) the
\* exception leaves the function before os.chdir(current_dir)
GetVoronoiNodes(temp_dir, ok) ==
    /\ temp_dir \notin temp_dirs
    /\ cwd' = IF ok THEN cwd ELSE temp_dir
    /\ temp_dirs' = IF ok THEN temp_dirs ELSE temp_dirs \cup {temp_dir}
    /\ zeo' = ZeoRet("get_voronoi_nodes", <<>>,
                     IF ok THEN "none" ELSE "Exception",
                     IF ok THEN <<"voronoi_node_struct">> ELSE <<>>,
                     cwd, temp_dir)
    /\ UNCHANGED <<structure, pc, _kpath, _name, ret>>

\* what get_void_volume_surfarea hands back for the outputs of Zeo++
Measured(vol_str, sa_str, ok, before, temp_dir, r) ==
    ZeoRet("get_void_volume_surfarea", <<vol_str, sa_str>>,
           IF ok THEN r.exc ELSE "Exception",
           IF ok THEN r.val ELSE <<>>,
           before, temp_dir)

\* get_void_volume_surfarea (lines 240-267): os.chdir(temp_dir), the calls
\* of Zeo++ (which hand back no output when they raise, ok is FALSE), the
\* two loops and the return; no path calls os.chdir again or shutil.rmtree
GetVoidVolumeSurfarea(temp_dir, ok, vol_str, sa_str) ==
    /\ temp_dir \notin temp_dirs
    /\ ok \/ (vol_str = <<>> /\ sa_str = <<>>)
    /\ cwd' = temp_dir
    /\ temp_dirs' = temp_dirs \cup {temp_dir}
    /\ zeo' = Measured(vol_str, sa_str, ok, cwd, temp_dir,
                       void_volume_surfarea(vol_str, sa_str))
    /\ UNCHANGED <<structure, pc, _kpath, _name, ret>>

InitZeo ==
    /\ structure = Struct("cubic", <<"P", "m", "-", "3", "m">>, <<12, 12, 12>>,
                          90, 90, <<90, 90, 90>>,
                          << <<1, 0, 0>>, <<0, 1, 0>>, <<0, 0, 1>> >>)
    /\ pc = "new"
    /\ _kpath = None
    /\ _name = NoAttr
    /\ ret = Ret("none", 0, "none", <<>>)
    /\ InitProcess

NextZeo ==
    \/ \E temp_dir \in 1..MaxTempDirs, ok \in BOOLEAN : GetVoronoiNodes(temp_dir, ok)
    \/ \E temp_dir \in 1..MaxTempDirs, ok \in BOOLEAN :
         \E vol_str \in ZeoOutputs, sa_str \in ZeoOutputs :
           GetVoidVolumeSurfarea(temp_dir, ok, vol_str, sa_str)

SpecZeo == InitZeo /\ [][NextZeo]_vars

(* ------------------------------ properties ----------------------------- *)
\* the centering letters the decision table lists for a lattice type
ListedLetters(t) ==
    CASE t = "cubic" -> {"P", "F", "I"}
      [] t = "tetragonal" -> {"P", "I"}
      [] t = "orthorhombic" -> {"P", "F", "I", "C"}
      [] t = "monoclinic" -> {"P", "C"}
      [] OTHER -> {}

LettersIn(s) == { l \in ListedLetters(s.lattice_type) : In(l, s.symbol) }

\* inputs that match one row of the table: a lattice type with listed
\* letters and exactly one of them in the symbol, a hexagonal or a
\* rhombohedral lattice, or a triclinic one whose reciprocal angles are all
\* above or all below 90
OneRow(s) ==
    \/ s.lattice_type \in {"hexagonal", "rhombohedral"}
    \/ /\ s.lattice_type \in {"cubic", "tetragonal", "orthorhombic", "monoclinic"}
       /\ Cardinality(LettersIn(s)) = 1
    \/ /\ s.lattice_type = "triclinic"
       /\ \/ \A k \in 1..3 : s.rec_angles[k] > 90
          \/ \A k \in 1..3 : s.rec_angles[k] < 90

\* inputs that match no row: a lattice type outside the seven, none of the
\* listed letters, or triclinic reciprocal angles on both sides of 90
NoRow(s) ==
    \/ s.lattice_type \notin LatticeTypes
    \/ /\ s.lattice_type \in {"cubic", "tetragonal", "orthorhombic", "monoclinic"}
       /\ LettersIn(s) = {}
    \/ /\ s.lattice_type = "triclinic"
       /\ \E k \in 1..3 : s.rec_angles[k] > 90
       /\ \E k \in 1..3 : s.rec_angles[k] < 90

VariantNames ==
    {"CUB", "FCC", "BCC", "TET", "BCT1", "BCT2", "ORC", "ORCF1", "ORCF2", "ORCF3",
     "ORCI", "ORCC", "HEX", "RHL1", "RHL2", "MCL", "MCLC1", "MCLC2", "MCLC3",
     "MCLC4", "MCLC5", "TRI1a", "TRI1b"}

\* the variant named nm evaluated on the cell of the structure s
Variant(nm, s) ==
    CASE nm = "CUB" -> cubic
      [] nm = "FCC" -> fcc
      [] nm = "BCC" -> bcc
      [] nm = "TET" -> tet
      [] nm = "BCT1" -> bctet1(Num(s.abc[3]), Num(s.abc[1]))
      [] nm = "BCT2" -> bctet2(Num(s.abc[3]), Num(s.abc[1]))
      [] nm = "ORC" -> orc
      [] nm = "ORCF1" -> orcf1(Num(s.abc[1]), Num(s.abc[2]), Num(s.abc[3]))
      [] nm = "ORCF2" -> orcf2(Num(s.abc[1]), Num(s.abc[2]), Num(s.abc[3]))
      [] nm = "ORCF3" -> orcf3(Num(s.abc[1]), Num(s.abc[2]), Num(s.abc[3]))
      [] nm = "ORCI" -> orci(Num(s.abc[1]), Num(s.abc[2]), Num(s.abc[3]))
      [] nm = "ORCC" -> orcc(Num(s.abc[1]), Num(s.abc[2]), Num(s.abc[3]))
      [] nm = "HEX" -> hex
      [] nm = "RHL1" -> rhl1(TimesPiOver180(s.prim_alpha))
      [] nm = "RHL2" -> rhl2(TimesPiOver180(s.prim_alpha))
      [] nm = "MCL" -> mcl(Num(s.abc[2]), Num(s.abc[3]), TimesPiOver180(s.alpha))
      [] nm = "MCLC1" -> mclc1(Num(s.abc[1]), Num(s.abc[2]), Num(s.abc[3]),
                               TimesPiOver180(s.alpha))
      [] nm = "MCLC2" -> mclc2(Num(s.abc[1]), Num(s.abc[2]), Num(s.abc[3]),
                               TimesPiOver180(s.alpha))
      [] nm = "MCLC3" -> mclc3(Num(s.abc[1]), Num(s.abc[2]), Num(s.abc[3]),
                               TimesPiOver180(s.alpha))
      [] nm = "MCLC4" -> mclc4(Num(s.abc[1]), Num(s.abc[2]), Num(s.abc[3]),
                               TimesPiOver180(s.alpha))
      [] nm = "MCLC5" -> mclc5(Num(s.abc[1]), Num(s.abc[2]), Num(s.abc[3]),
                               TimesPiOver180(s.alpha))
      [] nm = "TRI1a" -> tria
      [] nm = "TRI1b" -> trib

\* the instance holds the KPath of the variant named nm, and nothing else
HoldsVariant(kp, nm, s) ==
    /\ kp # None
    /\ kp = [none |-> FALSE, kpoints |-> Variant(nm, s).kpoints,
             path |-> Variant(nm, s).path]

\* C1: for every input that matches one row of the decision table,
\* constructing HighSymmKpath returns normally with one variant selected (a
\* variant's name, and the KPath of that same variant), and constructing
\* again from the same input selects the same name and the same KPath.
C1_OneVariantIdempotent ==
    [][ (ret'.op = "__init__" /\ OneRow(structure))
          => /\ pc' = "ready"
             /\ _name' \in VariantNames
             /\ HoldsVariant(_kpath', _name', structure)
             /\ (pc = "ready" => _kpath' = _kpath /\ _name' = _name) ]_vars

C1_Witness ==
    /\ ret.op = "__init__" /\ ret.arg = 2
    /\ structure.lattice_type = "monoclinic"
    /\ LettersIn(structure) = {"C"}
    /\ _name = "MCLC3"

\* C2: for every input that matches no row of the decision table,
\* construction ends in an error; it never returns normally.
C2_NoRowIsAnError ==
    (ret.op = "__init__" /\ NoRow(structure)) => pc = "raised"

\* C3: on an instance of an input that matched no row, the property kpath
\* fails; it never returns a value.
C3_KpathOfNoRowFails ==
    (ret.op = "kpath" /\ NoRow(structure)) => ret.exc # "none"

\* C4: for every generator and all arguments, every label of every segment
\* of the returned 'path' is a key of the returned 'kpoints'.
C4_PathLabelsAreKpoints ==
    (ret.op \in GeneratorNames /\ ret.exc = "none")
      => \A k \in DOMAIN ret.val.path :
           \A j \in DOMAIN ret.val.path[k] :
             ret.val.path[k][j] \in DOMAIN ret.val.kpoints

C4_Witness ==
    /\ ret.op = "mclc5" /\ ret.exc = "none"
    /\ Len(ret.val.path) = 4
    /\ ret.val.path[2][1] = "I_1"

\* the legs of a path in the order get_kpoints walks them: the pairs of
\* consecutive labels of segment k and of the segments after it
RECURSIVE AllLegs(_, _)
AllLegs(path, k) ==
    IF k > Len(path) THEN <<>>
    ELSE [j \in 1..(Len(path[k]) - 1) |-> <<path[k][j], path[k][j + 1]>>]
           \o AllLegs(path, k + 1)

CartesianOf(kp, m, label) == get_cartesian_coords(m, kp.kpoints[label])

\* ceil(L * d) for the leg from label u to label v
LegSteps(kp, m, leg, d) ==
    ceil_sqrt_times(norm2(VecMinus(CartesianOf(kp, m, leg[1]),
                                   CartesianOf(kp, m, leg[2]))), d)

\* from position offset on, list holds for each of the legs k, k + 1, ...
\* exactly ceil(L * d) + 1 points, the first at the leg's start and the last
\* at the leg's end, and nothing after them
RECURSIVE LegsSampled(_, _, _, _, _, _, _)
LegsSampled(legs, k, offset, list, kp, m, d) ==
    IF k > Len(legs) THEN offset = Len(list)
    ELSE /\ offset + LegSteps(kp, m, legs[k], d) + 1 <= Len(list)
         /\ list[offset + 1] = CartesianOf(kp, m, legs[k][1])
         /\ list[offset + LegSteps(kp, m, legs[k], d) + 1]
              = CartesianOf(kp, m, legs[k][2])
         /\ LegsSampled(legs, k + 1, offset + LegSteps(kp, m, legs[k], d) + 1,
                        list, kp, m, d)

HasZeroLengthLeg(kp, m) ==
    \E k \in DOMAIN kp.path : \E j \in 1..(Len(kp.path[k]) - 1) :
        CartesianOf(kp, m, kp.path[k][j]) = CartesianOf(kp, m, kp.path[k][j + 1])

\* get_kpoints returned, and the list it returned samples every leg
SampledEveryLeg ==
    /\ ret.exc = "none"
    /\ LegsSampled(AllLegs(_kpath.path, 1), 1, 0, ret.val, _kpath,
                   structure.rec_matrix, ret.arg)

\* C5: for every leg of Cartesian length L and every positive line_density
\* d, get_kpoints emits exactly ceil(L * d) + 1 points for the leg, the first
\* at the leg's start label and the last at its end label.
C5_LegPointCount ==
    (ret.op = "get_kpoints" /\ _kpath # None) => SampledEveryLeg

\* C6: when a leg's start and end have the same Cartesian coordinates,
\* get_kpoints emits exactly one point for that leg and goes on with the
\* remaining legs; it does not fail.
C6_ZeroLengthLegOnePoint ==
    (/\ ret.op = "get_kpoints"
     /\ _kpath # None
     /\ HasZeroLengthLeg(_kpath, structure.rec_matrix)) => SampledEveryLeg

\* The count and the end points of C5 on the paths all of whose legs have a
\* positive length
LegPointCountOfProperLegs ==
    (/\ ret.op = "get_kpoints"
     /\ _kpath # None
     /\ ~HasZeroLengthLeg(_kpath, structure.rec_matrix)) => SampledEveryLeg

\* C7: for an orthorhombic F structure exactly one of ORCF1, ORCF2, ORCF3
\* is selected: ORCF1 when 1/a^2 > 1/b^2 + 1/c^2, ORCF2 when
\* 1/a^2 < 1/b^2 + 1/c^2, ORCF3 when the two sides are equal (the
\* comparison is stated on the products with a^2 b^2 c^2).
C7_OrcfSplit ==
    (/\ ret.op = "__init__"
     /\ structure.lattice_type = "orthorhombic"
     /\ LettersIn(structure) = {"F"})
      => LET a2 == structure.abc[1] * structure.abc[1]
             b2 == structure.abc[2] * structure.abc[2]
             c2 == structure.abc[3] * structure.abc[3]
         IN  /\ pc = "ready"
             /\ _name = IF b2 * c2 > a2 * c2 + a2 * b2 THEN "ORCF1"
                        ELSE IF b2 * c2 < a2 * c2 + a2 * b2 THEN "ORCF2"
                        ELSE "ORCF3"
             /\ HoldsVariant(_kpath, _name, structure)

C7_Witness ==
    /\ ret.op = "__init__"
    /\ structure.lattice_type = "orthorhombic"
    /\ LettersIn(structure) = {"F"}
    /\ structure.abc = <<12, 15, 20>>
    /\ _name = "ORCF3"

\* C8: for a tetragonal I structure BCT1 is selected exactly when c < a and
\* BCT2 exactly when c >= a, and the k-points of BCT1 are built from
\* c^2 / a^2 (eta = (1 + c^2/a^2) / 4) and those of BCT2 from a^2 / c^2
\* (eta = (1 + a^2/c^2) / 4, zeta = a^2 / (2 c^2)).
C8_BctSplit ==
    (/\ ret.op = "__init__"
     /\ structure.lattice_type = "tetragonal"
     /\ In("I", structure.symbol))
      => LET a == structure.abc[1]
             c == structure.abc[3]
         IN  /\ pc = "ready"
             /\ (c < a) =>
                  /\ _name = "BCT1"
                  /\ _kpath.kpoints["Z"][1] = Frac(a * a + c * c, 4 * a * a)
             /\ (c >= a) =>
                  /\ _name = "BCT2"
                  /\ _kpath.kpoints["\\Sigma"][2] = Frac(c * c + a * a, 4 * c * c)
                  /\ _kpath.kpoints["Y"][2] = Frac(a * a, 2 * c * c)

C8_Witness ==
    /\ ret.op = "__init__"
    /\ structure.lattice_type = "tetragonal"
    /\ In("I", structure.symbol)
    /\ structure.abc[1] = structure.abc[3]
    /\ _name = "BCT2"

\* b cos(alpha) / c + b^2 sin^2(alpha) / a^2 with the cosine and the sine of
\* the same angle alpha * pi / 180
SameAngleRatio(s) ==
    Plus(Over(Times(Num(s.abc[2]), cos(TimesPiOver180(s.alpha))), Num(s.abc[3])),
         Over(Times(Sq(Num(s.abc[2])), sin2(TimesPiOver180(s.alpha))),
              Sq(Num(s.abc[1]))))

\* C9: for a monoclinic C structure with kgamma < 90 the variant is MCLC3,
\* MCLC4 or MCLC5 according to whether the ratio, with cosine and sine of the
\* same angle, is < 1, == 1 or > 1.
C9_MclcByRatio ==
    (/\ ret.op = "__init__"
     /\ structure.lattice_type = "monoclinic"
     /\ In("C", structure.symbol)
     /\ structure.rec_angles[3] < 90)
      => _name = IF Less(SameAngleRatio(structure), One) THEN "MCLC3"
                 ELSE IF Equal(SameAngleRatio(structure), One) THEN "MCLC4"
                 ELSE "MCLC5"

\* C10: for a monoclinic C structure kgamma alone decides the first split:
\* kgamma > 90 selects MCLC1, kgamma == 90 selects MCLC2, kgamma < 90 one of
\* MCLC3/4/5, and the KPath kept is the one of the variant selected.
C10_KgammaSplit ==
    (/\ ret.op = "__init__"
     /\ structure.lattice_type = "monoclinic"
     /\ In("C", structure.symbol))
      => /\ pc = "ready"
         /\ (structure.rec_angles[3] > 90) => _name = "MCLC1"
         /\ (structure.rec_angles[3] = 90) => _name = "MCLC2"
         /\ (structure.rec_angles[3] < 90) => _name \in {"MCLC3", "MCLC4", "MCLC5"}
         /\ HoldsVariant(_kpath, _name, structure)

C10_Witness ==
    /\ ret.op = "__init__"
    /\ structure.lattice_type = "monoclinic"
    /\ In("C", structure.symbol)
    /\ structure.rec_angles[3] = 90
    /\ _name = "MCLC2"

\* exactly one of the three reciprocal angles is 90
OneRightAngle(ra) == Cardinality({ k \in 1..3 : ra[k] = 90 }) = 1

\* the row of TRI1a: all three angles above 90, or one at 90 and two above
TriclinicAbove(ra) ==
    /\ \A k \in 1..3 : ra[k] >= 90
    /\ (\A k \in 1..3 : ra[k] > 90) \/ OneRightAngle(ra)

\* the row of TRI1b: all three angles below 90, or one at 90 and two below
TriclinicBelow(ra) ==
    /\ \A k \in 1..3 : ra[k] =< 90
    /\ (\A k \in 1..3 : ra[k] < 90) \/ OneRightAngle(ra)

\* C11: for a triclinic structure TRI1a is selected when all three
\* reciprocal angles are > 90 or exactly one of them is 90 and the other two
\* are > 90, and TRI1b when all three are < 90 or exactly one is 90 and the
\* other two are < 90, whichever of the three angles is the one at 90.
C11_TriclinicSplit ==
    (ret.op = "__init__" /\ structure.lattice_type = "triclinic")
      => /\ TriclinicAbove(structure.rec_angles)
              => (pc = "ready" /\ _name = "TRI1a"
                  /\ HoldsVariant(_kpath, "TRI1a", structure))
         /\ TriclinicBelow(structure.rec_angles)
              => (pc = "ready" /\ _name = "TRI1b"
                  /\ HoldsVariant(_kpath, "TRI1b", structure))

\* C12: for a rhombohedral structure, whatever its symbol, RHL1 is selected
\* exactly when the primitive-cell angle is < 90 degrees and RHL2 exactly
\* when it is >= 90, and the KPath kept is the one the generator computes
\* from that angle times pi / 180.
C12_RhlSplit ==
    (ret.op = "__init__" /\ structure.lattice_type = "rhombohedral")
      => /\ pc = "ready"
         /\ _name = IF structure.prim_alpha < 90 THEN "RHL1" ELSE "RHL2"
         /\ (structure.prim_alpha < 90)
              => _kpath.kpoints = rhl1(TimesPiOver180(structure.prim_alpha)).kpoints
         /\ (structure.prim_alpha >= 90)
              => _kpath.kpoints = rhl2(TimesPiOver180(structure.prim_alpha)).kpoints

C12_Witness ==
    /\ ret.op = "__init__"
    /\ structure.lattice_type = "rhombohedral"
    /\ structure.prim_alpha = 90
    /\ structure.symbol = <<"C", "m", "c", "m">>
    /\ _name = "RHL2"

\* the rows of the decision table without an extra condition
UnconditionalRows ==
    (<<"cubic", "P">> :> "CUB") @@ (<<"cubic", "F">> :> "FCC")
      @@ (<<"cubic", "I">> :> "BCC") @@ (<<"tetragonal", "P">> :> "TET")
      @@ (<<"orthorhombic", "P">> :> "ORC") @@ (<<"orthorhombic", "I">> :> "ORCI")
      @@ (<<"orthorhombic", "C">> :> "ORCC") @@ (<<"monoclinic", "P">> :> "MCL")

\* C13: for the table rows without an extra condition the variant depends
\* only on lattice type and centering letter (cubic P/F/I: CUB/FCC/BCC,
\* tetragonal P: TET, orthorhombic P/I/C: ORC/ORCI/ORCC, monoclinic P: MCL,
\* hexagonal with any symbol: HEX), whatever the lengths and angles are.
C13_UnconditionalRowsSelect ==
    (ret.op = "__init__")
      => /\ (structure.lattice_type = "hexagonal")
              => (pc = "ready" /\ _name = "HEX")
         /\ \A row \in DOMAIN UnconditionalRows :
              (/\ structure.lattice_type = row[1]
               /\ LettersIn(structure) = {row[2]})
                => (pc = "ready" /\ _name = UnconditionalRows[row])

C13_Witness ==
    /\ ret.op = "__init__"
    /\ structure.lattice_type = "orthorhombic"
    /\ LettersIn(structure) = {"C"}
    /\ structure.abc = <<12, 20, 12>>
    /\ _name = "ORCC"

\* C14: for a cubic structure with centering P, whatever the lattice
\* constant, the variant is named CUB, its k-points are exactly
\* Gamma = [0, 0, 0], X = [0, 0.5, 0], M = [0.5, 0.5, 0], R = [0.5, 0.5, 0.5]
\* and its path is exactly [Gamma, X, M, Gamma, R, X], [M, R] in that order.
C14_CubExactData ==
    (/\ ret.op = "__init__"
     /\ structure.lattice_type = "cubic"
     /\ LettersIn(structure) = {"P"})
      => /\ pc = "ready"
         /\ _name = "CUB"
         /\ _kpath # None
         /\ DOMAIN _kpath.kpoints = {"\\Gamma", "X", "M", "R"}
         /\ _kpath.kpoints["\\Gamma"] = << <<0, 1>>, <<0, 1>>, <<0, 1>> >>
         /\ _kpath.kpoints["X"] = << <<0, 1>>, <<1, 2>>, <<0, 1>> >>
         /\ _kpath.kpoints["M"] = << <<1, 2>>, <<1, 2>>, <<0, 1>> >>
         /\ _kpath.kpoints["R"] = << <<1, 2>>, <<1, 2>>, <<1, 2>> >>
         /\ _kpath.path = << <<"\\Gamma", "X", "M", "\\Gamma", "R", "X">>,
                             <<"M", "R">> >>

C14_Witness ==
    /\ ret.op = "__init__"
    /\ structure.lattice_type = "cubic"
    /\ LettersIn(structure) = {"P"}
    /\ structure.abc = <<20, 15, 12>>
    /\ _kpath # None
    /\ _name = "CUB"

\* C15: get_kpoints shares no state between calls: whatever was called
\* before, a call with density d returns (or raises) what the KPath of the
\* instance and d alone determine, and it leaves the KPath and the name of
\* the instance as they were.
C15_GetKpointsSharesNothing ==
    [][ (ret'.op = "get_kpoints")
          => /\ _kpath' = _kpath
             /\ _name' = _name
             /\ ret' = Sampled(ret'.arg,
                               get_kpoints(_kpath, structure.rec_matrix, ret'.arg)) ]_vars

C15_Witness ==
    /\ ret.op = "get_kpoints"
    /\ ret.arg = 2
    /\ ret.exc = "none"
    /\ Len(ret.val) > 2
    /\ _name = "FCC"

\* C16: after a successful construction no sequence of public method calls
\* (the properties, get_kpoints and the generator methods) changes the
\* selected variant: in every reachable state the name is the one
\* construction selected and is the name of the variant whose k-points and
\* segments the instance holds.
C16_VariantFixedAfterConstruction ==
    (pc = "ready" /\ _kpath # None)
      => /\ _name = init(structure)._name
         /\ _kpath = init(structure)._kpath
         /\ HoldsVariant(_kpath, _name, structure)

\* the number of points of the legs before leg k: the sum of
\* ceil(L * d) + 1 over the legs 1 .. k - 1
RECURSIVE PointsBefore(_, _, _, _, _)
PointsBefore(legs, k, kp, m, d) ==
    IF k =< 1 THEN 0
    ELSE PointsBefore(legs, k - 1, kp, m, d) + LegSteps(kp, m, legs[k - 1], d) + 1

\* C17: get_kpoints does not deduplicate shared end points: when a leg ends
\* at the label where the next leg starts, that point stands twice in a row
\* in the returned list, and the length of the list is the sum of
\* n_leg + 1 over all legs of all segments.
C17_SharedEndpointsTwice ==
    (ret.op = "get_kpoints" /\ ret.exc = "none")
      => /\ Len(ret.val)
              = PointsBefore(AllLegs(_kpath.path, 1),
                             Len(AllLegs(_kpath.path, 1)) + 1,
                             _kpath, structure.rec_matrix, ret.arg)
         /\ \A k \in 1..(Len(AllLegs(_kpath.path, 1)) - 1) :
              (AllLegs(_kpath.path, 1)[k][2] = AllLegs(_kpath.path, 1)[k + 1][1])
                => /\ ret.val[PointsBefore(AllLegs(_kpath.path, 1), k + 1, _kpath,
                                           structure.rec_matrix, ret.arg)]
                        = CartesianOf(_kpath, structure.rec_matrix,
                                      AllLegs(_kpath.path, 1)[k][2])
                   /\ ret.val[PointsBefore(AllLegs(_kpath.path, 1), k + 1, _kpath,
                                           structure.rec_matrix, ret.arg) + 1]
                        = CartesianOf(_kpath, structure.rec_matrix,
                                      AllLegs(_kpath.path, 1)[k][2])

C17_Witness ==
    /\ ret.op = "get_kpoints"
    /\ ret.exc = "none"
    /\ ret.arg = 1
    /\ _name = "CUB"
    /\ Len(ret.val) > Len(AllLegs(_kpath.path, 1))
    /\ ret.val[2] = ret.val[3]

\* a generator the constructor calls for s takes a length that is not positive
RequiresNonPositive(s) ==
    \/ /\ s.lattice_type = "tetragonal"
       /\ In("I", s.symbol)
       /\ (s.abc[1] =< 0 \/ s.abc[3] =< 0)
    \/ /\ s.lattice_type = "orthorhombic"
       /\ \E l \in {"F", "I", "C"} : In(l, s.symbol)
       /\ \E k \in 1..3 : s.abc[k] =< 0

\* C18: when a length a generator requires is not positive, construction
\* fails with an input error before any path formula is evaluated; it
\* neither completes with a path nor fails inside a formula.
C18_NonPositiveLengthRejected ==
    (ret.op = "__init__" /\ RequiresNonPositive(structure))
      => /\ pc = "raised"
         /\ ret.exc \notin {"none", "ZeroDivisionError"}

\* the points start + (k / n) * (end - start), k = 0 .. n, of a leg
LegPoints(kp, m, leg, d) ==
    [k \in 1..(LegSteps(kp, m, leg, d) + 1) |->
        VecPlus(CartesianOf(kp, m, leg[1]),
                VecScale(Frac(k - 1, LegSteps(kp, m, leg, d)),
                         VecMinus(CartesianOf(kp, m, leg[2]),
                                  CartesianOf(kp, m, leg[1]))))]

RECURSIVE Concatenated(_, _, _, _, _)
Concatenated(legs, k, kp, m, d) ==
    IF k > Len(legs) THEN <<>>
    ELSE LegPoints(kp, m, legs[k], d) \o Concatenated(legs, k + 1, kp, m, d)

\* C19: the list get_kpoints returns is the concatenation, in segment order
\* and within a segment in leg order, of the points of every leg, each leg
\* sampled once, the k-th point of a leg being start + (k / n) * (end - start)
\* for k = 0 .. n; the interpolation index changes neither the leg sampled
\* next nor the labels used.
C19_ConcatenationOfLegs ==
    (ret.op = "get_kpoints" /\ ret.exc = "none")
      => ret.val = Concatenated(AllLegs(_kpath.path, 1), 1, _kpath,
                                structure.rec_matrix, ret.arg)

C19_Witness ==
    /\ ret.op = "get_kpoints"
    /\ ret.exc = "none"
    /\ ret.arg = 2
    /\ _name = "ORCF3"
    /\ Len(_kpath.path) > 1
    /\ Len(ret.val) > 3 * Len(AllLegs(_kpath.path, 1))

\* C20: for every variant the constructor selects from positive lengths,
\* the tie cases included, the two end labels of every leg of every segment
\* have different fractional coordinates, and get_kpoints returns a list for
\* every positive density.
C20_NoZeroLengthLeg ==
    (pc = "ready" /\ _kpath # None)
      => /\ \A k \in DOMAIN _kpath.path :
              \A j \in 1..(Len(_kpath.path[k]) - 1) :
                _kpath.kpoints[_kpath.path[k][j]]
                  # _kpath.kpoints[_kpath.path[k][j + 1]]
         /\ (ret.op = "get_kpoints") => (ret.exc = "none")

\* the variants of each row of the decision table that tests a letter
RowVariants ==
    (<<"cubic", "P">> :> {"CUB"}) @@ (<<"cubic", "F">> :> {"FCC"})
      @@ (<<"cubic", "I">> :> {"BCC"}) @@ (<<"tetragonal", "P">> :> {"TET"})
      @@ (<<"tetragonal", "I">> :> {"BCT1", "BCT2"})
      @@ (<<"orthorhombic", "P">> :> {"ORC"})
      @@ (<<"orthorhombic", "F">> :> {"ORCF1", "ORCF2", "ORCF3"})
      @@ (<<"orthorhombic", "I">> :> {"ORCI"})
      @@ (<<"orthorhombic", "C">> :> {"ORCC"})
      @@ (<<"monoclinic", "P">> :> {"MCL"})
      @@ (<<"monoclinic", "C">> :> {"MCLC1", "MCLC2", "MCLC3", "MCLC4", "MCLC5"})

\* the last, in the order P, F, I, C, of the letters of a non-empty set
LastLetter(letters) ==
    IF "C" \in letters THEN "C"
    ELSE IF "I" \in letters THEN "I"
    ELSE IF "F" \in letters THEN "F"
    ELSE "P"

\* C21: when the symbol of a cubic, tetragonal, orthorhombic or monoclinic
\* structure contains more than one of the letters tested for its lattice
\* type, the last matching one in the order P, F, I, C wins: after
\* construction the name is a variant of that letter's row and the KPath is
\* the one of the variant named.
C21_LastLetterWins ==
    (ret.op = "__init__" /\ Cardinality(LettersIn(structure)) > 1)
      => /\ pc = "ready"
         /\ _name \in RowVariants[<<structure.lattice_type,
                                   LastLetter(LettersIn(structure))>>]
         /\ HoldsVariant(_kpath, _name, structure)

C21_Witness ==
    /\ ret.op = "__init__"
    /\ structure.lattice_type = "cubic"
    /\ LettersIn(structure) = {"F", "I"}
    /\ _name = "BCC"
    /\ _kpath # None

(* ------------------------------- zeoio --------------------------------- *)
\* C22: when get_voronoi_nodes or get_void_volume_surfarea returns normally,
\* the working directory is the one the process had before the call and the
\* temporary directory the call made is removed.
C22_WorkingDirectoryRestored ==
    (zeo.op \in {"get_voronoi_nodes", "get_void_volume_surfarea"} /\ zeo.exc = "none")
      => /\ cwd = zeo.before
         /\ zeo.temp_dir \notin temp_dirs

\* the part of C22 the code keeps: get_voronoi_nodes restores and removes
C22_VoronoiNodesRestores ==
    (zeo.op = "get_voronoi_nodes" /\ zeo.exc = "none")
      => /\ cwd = zeo.before
         /\ zeo.temp_dir \notin temp_dirs

PocketLines(out) == { k \in DOMAIN out : HasPockets(out[k]) }
TooManyVoids(out) == \E k \in PocketLines(out) : Less(Num(1), float(out[k][2]))
NoPocketLine(out) == PocketLines(out) = {}

\* C23: get_void_volume_surfarea returns (vol, sa) only when both outputs
\* hold a Number_of_pockets line and no such line reports more than one
\* pocket; it raises "Too many voids" when a line reports more than one; it
\* raises "No voids present" exactly when an output holds no such line (and
\* no line reports more than one pocket), so a value of 0 that was found is
\* not a missing pocket.  Stated of the calls that end in a pair or in a
\* ValueError.
C23_VoidsParsed ==
    (zeo.op = "get_void_volume_surfarea" /\ zeo.exc \notin {"Exception", "IndexError"})
      => /\ zeo.exc = "none"
              => /\ ~NoPocketLine(zeo.arg[1]) /\ ~NoPocketLine(zeo.arg[2])
                 /\ ~TooManyVoids(zeo.arg[1]) /\ ~TooManyVoids(zeo.arg[2])
         /\ (TooManyVoids(zeo.arg[1]) \/ TooManyVoids(zeo.arg[2]))
              => zeo.exc = "ValueError: Too many voids"
         /\ (~TooManyVoids(zeo.arg[1]) /\ ~TooManyVoids(zeo.arg[2]))
              => (zeo.exc = "ValueError: No voids present. Check input structure"
                    <=> (NoPocketLine(zeo.arg[1]) \/ NoPocketLine(zeo.arg[2])))

\* the same with a found value of 0 counted as missing, as `not vol` does
C23_ZeroIsMissing ==
    (zeo.op = "get_void_volume_surfarea" /\ zeo.exc = "ValueError: No voids present. Check input structure")
      => \/ NoPocketLine(zeo.arg[1]) \/ NoPocketLine(zeo.arg[2])
         \/ \E k \in PocketLines(zeo.arg[1]) : zeo.arg[1][k][4] = "0.0"
         \/ \E k \in PocketLines(zeo.arg[2]) : zeo.arg[2][k][4] = "0.0"
=============================================================================
